---- MODULE Spec2Model ----
(***************************************************************************)
(* Request/response contract layer of the Workbench SDK resource clients   *)
(* (workbench.resources.service_requests, workbench.resources.webhooks).   *)
(* A caller invokes a resource method; the method builds a parameter       *)
(* mapping, hands one request to the shared transport (self._client) and   *)
(* returns or raises what the transport returned or raised.                *)
(***************************************************************************)
EXTENDS Integers, Sequences, FiniteSets, TLC

VARIABLES
    client,     \* resource -> the transport reference held in self._client
    pc,         \* caller -> "idle" | "awaiting" | "done"
    call,       \* caller -> the method invocation and its arguments
    request,    \* caller -> the request handed to self._client.<verb>(...)
    ncalls,     \* caller -> transport calls issued by the current invocation
    outcome,    \* caller -> what the transport returned or raised
    result,     \* caller -> what the method returned or raised
    store,      \* remote system: the (resource, id) pairs that exist
    gone        \* remote system: the (resource, id) pairs that were deleted

vars == <<client, pc, call, request, ncalls, outcome, result, store, gone>>

----------------------------------------------------------------------------
(* Python values.  A dict is a function from its keys to tagged values.    *)

None == [t |-> "None"]
PyStr(s) == [t |-> "str", v |-> s]
PyInt(i) == [t |-> "int", v |-> i]
PyBool(b) == [t |-> "bool", v |-> b]
PyList(l) == [t |-> "list", v |-> l]

EmptyDict == [k \in {} |-> None]

\* The keys of a mapping whose value is not None.
NonNull(d) == {k \in DOMAIN d : d[k] # None}

----------------------------------------------------------------------------
(* Bounds and the argument values the callers draw from.                   *)

\* At most this many optional arguments are given in one invocation.
MaxArgs == 2

StrVals == {PyStr(""), PyStr("x")}
IntVals == {PyInt(0), PyInt(2), PyInt(101)}
BoolVals == {PyBool(FALSE), PyBool(TRUE)}
EventLists == {PyList(<<>>), PyList(<<"invoice.paid">>), PyList(<<"no.such_event">>)}
ArgVals == StrVals \cup IntVals \cup BoolVals \cup EventLists

ValsOf(k) ==
    CASE k \in {"page", "per_page"} -> IntVals
      [] k = "events" -> EventLists
      [] k = "is_active" -> BoolVals
      [] k = "notes" -> StrVals \cup {PyInt(0)}
      [] OTHER -> StrVals

SmallSubsets(keys) == {S \in SUBSET keys : Cardinality(S) <= MaxArgs}

\* Keyword parameters that default to None: every key is bound, at most
\* MaxArgs of them to a value other than None.
OptArgs(keys) ==
    UNION { { [k \in keys |-> IF k \in S THEN g[k] ELSE None] :
                g \in {f \in [S -> ArgVals] : \A k \in S : f[k] \in ValsOf(k)} } :
            S \in SmallSubsets(keys) }

\* **kwargs: only the keys the caller wrote are bound, possibly to None.
KwArgs(keys) ==
    UNION { {f \in [S -> ArgVals \cup {None}] :
                \A k \in S : f[k] \in ValsOf(k) \cup {None}} :
            S \in SmallSubsets(keys) }

\* Identifiers callers pass and the remote system assigns.
Ids == {"e1", "e2"}

Callers == {1}

Resources == {"service-requests", "webhooks"}

TheClient == "WorkbenchClient"

----------------------------------------------------------------------------
(* The shared transport.  A request is the helper invoked (its HTTP verb), *)
(* the path and the keyword arguments (params= or json=) it was given.     *)

Get(url, kw) == [verb |-> "GET", url |-> url, kw |-> kw]
Post(url, kw) == [verb |-> "POST", url |-> url, kw |-> kw]
Put(url, kw) == [verb |-> "PUT", url |-> url, kw |-> kw]
Delete(url, kw) == [verb |-> "DELETE", url |-> url, kw |-> kw]

Return(v) == [kind |-> "return", value |-> v]
Raise(e) == [kind |-> "raise", error |-> e]

\* Failure taxonomy of the transport.
Failures == {"validation", "not_found", "authorization", "transport"}

Meta == [request_id |-> "req_1", timestamp |-> "2024-01-01T00:00:00Z"]
Entity == [id |-> "e1", business_id |-> "b1", title |-> "AC Not Cooling", status |-> "new"]
ApiResponse(id) == [data |-> [Entity EXCEPT !.id = id], meta |-> Meta]
TestResponse == [data |-> [status |-> "delivered"], meta |-> Meta]
ListResponse ==
    [data |-> <<Entity>>, meta |-> Meta,
     pagination |-> [page |-> 1, per_page |-> 20, total |-> 1,
                     total_pages |-> 1, has_more |-> FALSE]]

\* Decoded responses the transport can return.
Responses == {ApiResponse(id) : id \in Ids} \cup {TestResponse, ListResponse, None}

TransportOutcomes == {Return(v) : v \in Responses} \cup {Raise(e) : e \in Failures}

----------------------------------------------------------------------------
(* Parameters of the resource methods.                                     *)

SRListKeys ==
    {"page", "per_page", "search", "sort", "order", "status", "priority", "client_id"}

SRCreateOptKeys ==
    {"client_id", "description", "status", "source", "priority", "requested_date",
     "preferred_time", "address", "contact_name", "contact_email", "contact_phone",
     "notes"}

SRCreateKeys == {"title"} \cup SRCreateOptKeys

\* update(self, id, **kwargs): any keyword other than self and id binds into
\* kwargs; the documented fields and one undocumented keyword are drawn here.
SRUpdateKwKeys == SRCreateKeys \cup {"business_id"}

WHListKeys == {"page", "per_page"}
WHCreateKeys == {"name", "url", "events"}
WHUpdateKeys == {"name", "url", "events", "is_active"}
WHDeliveriesKeys == {"page", "per_page", "event_type"}

\* create(title, ...): title is positional and has no default; a caller can
\* still bind it to None or to the empty string.
SRCreateArgs ==
    { [k \in SRCreateKeys |-> IF k = "title" THEN t ELSE o[k]] :
        t \in {None, PyStr(""), PyStr("AC Not Cooling")}, o \in OptArgs(SRCreateOptKeys) }

SRListArgs == OptArgs(SRListKeys)
SRUpdateArgs == KwArgs(SRUpdateKwKeys)
WHListArgs == OptArgs(WHListKeys)
WHUpdateArgs == OptArgs(WHUpdateKeys)
WHDeliveriesArgs == OptArgs(WHDeliveriesKeys)

WHCreateArgs ==
    { [name |-> n, url |-> u, events |-> e] :
        n \in {PyStr(""), PyStr("N")}, u \in {PyStr(""), PyStr("https://x")},
        e \in EventLists }

----------------------------------------------------------------------------
(* ServiceRequestsResource: the request each method hands to the transport *)

ServiceRequests_list_request(a) ==
    LET params == [k \in SRListKeys |-> a[k]]
    IN  Get("/v1/service-requests", [params |-> params])

\* A get that addresses the webhooks collection.
ServiceRequests_get_request_webhooks(id) ==
    Get("/v1/webhooks/" \o id, EmptyDict)

ServiceRequests_get_request(id) ==
    Get("/v1/service-requests/" \o id, EmptyDict)

\* Python truthiness of a value.
Truthy(v) ==
    v \notin {None, PyStr(""), PyInt(0), PyBool(FALSE), PyList(<<>>)}

\* A create that keeps a field "if v".
ServiceRequests_create_request_truthy(a) ==
    LET data == [k \in SRCreateKeys |-> a[k]]
        kept == {k \in DOMAIN data : Truthy(data[k])}
    IN  Post("/v1/service-requests", [json |-> [k \in kept |-> data[k]]])

\* A create that posts the mapping without dropping the None entries.
ServiceRequests_create_request_unfiltered(a) ==
    LET data == [k \in SRCreateKeys |-> a[k]]
    IN  Post("/v1/service-requests", [json |-> data])

ServiceRequests_create_request(a) ==
    LET data == [k \in SRCreateKeys |-> a[k]]
        kept == {k \in DOMAIN data : data[k] # None \/ k = "title"}
    IN  Post("/v1/service-requests", [json |-> [k \in kept |-> data[k]]])

\* An update that puts kwargs without dropping the None entries.
ServiceRequests_update_request_unfiltered(id, kwargs) ==
    Put("/v1/service-requests/" \o id, [json |-> kwargs])

ServiceRequests_update_request(id, kwargs) ==
    LET kept == {k \in DOMAIN kwargs : kwargs[k] # None}
    IN  Put("/v1/service-requests/" \o id, [json |-> [k \in kept |-> kwargs[k]]])

ServiceRequests_delete_request(id) ==
    Delete("/v1/service-requests/" \o id, EmptyDict)

----------------------------------------------------------------------------
(* WebhooksResource: the request each method hands to the transport        *)

Webhooks_list_request(a) ==
    LET params == [k \in WHListKeys |-> a[k]]
    IN  Get("/v1/webhooks", [params |-> params])

Webhooks_get_request(id) ==
    Get("/v1/webhooks/" \o id, EmptyDict)

Webhooks_create_request(a) ==
    LET data == [k \in WHCreateKeys |-> a[k]]
    IN  Post("/v1/webhooks", [json |-> data])

\* An update that keeps a field "if v".
Webhooks_update_request_truthy(id, a) ==
    LET data == [k \in WHUpdateKeys |-> a[k]]
        kept == {k \in DOMAIN data : Truthy(data[k])}
    IN  Put("/v1/webhooks/" \o id, [json |-> [k \in kept |-> data[k]]])

Webhooks_update_request(id, a) ==
    LET data == [k \in WHUpdateKeys |-> a[k]]
        kept == {k \in DOMAIN data : data[k] # None}
    IN  Put("/v1/webhooks/" \o id, [json |-> [k \in kept |-> data[k]]])

Webhooks_delete_request(id) ==
    Delete("/v1/webhooks/" \o id, EmptyDict)

Webhooks_list_deliveries_request(webhook_id, a) ==
    LET params == [k \in WHDeliveriesKeys |-> a[k]]
    IN  Get("/v1/webhooks/" \o webhook_id \o "/deliveries", [params |-> params])

Webhooks_test_request(id) ==
    Post("/v1/webhooks/" \o id \o "/test", EmptyDict)

----------------------------------------------------------------------------
(* State machine.                                                          *)

NoCall == [op |-> "none"]
NoRequest == [verb |-> "none"]
NoOutcome == [kind |-> "none"]

Init ==
    /\ client = [r \in Resources |-> TheClient]
    /\ pc = [c \in Callers |-> "idle"]
    /\ call = [c \in Callers |-> NoCall]
    /\ request = [c \in Callers |-> NoRequest]
    /\ ncalls = [c \in Callers |-> 0]
    /\ outcome = [c \in Callers |-> NoOutcome]
    /\ result = [c \in Callers |-> NoOutcome]
    /\ store = {}
    /\ gone = {}

\* A method that keeps the operation in progress in the resource object.
Send_stateful(c, cl, req) ==
    /\ pc' = [pc EXCEPT ![c] = "awaiting"]
    /\ call' = [call EXCEPT ![c] = cl]
    /\ request' = [request EXCEPT ![c] = req]
    /\ ncalls' = [ncalls EXCEPT ![c] = @ + 1]
    /\ client' = [client EXCEPT ![cl.res] = cl.op]
    /\ UNCHANGED <<outcome, result, store, gone>>

\* The method body up to and including its call of self._client.<verb>.
Send(c, cl, req) ==
    /\ pc' = [pc EXCEPT ![c] = "awaiting"]
    /\ call' = [call EXCEPT ![c] = cl]
    /\ request' = [request EXCEPT ![c] = req]
    /\ ncalls' = [ncalls EXCEPT ![c] = @ + 1]
    /\ UNCHANGED <<client, outcome, result, store, gone>>

\* A list that rejects page < 1 itself, before any transport call.
ServiceRequests_list_validating(c) ==
    /\ pc[c] = "idle"
    /\ \E a \in SRListArgs :
        IF a.page # None /\ a.page.v < 1
        THEN /\ pc' = [pc EXCEPT ![c] = "done"]
             /\ call' = [call EXCEPT ![c] =
                    [res |-> "service-requests", op |-> "list", args |-> a]]
             /\ result' = [result EXCEPT ![c] = Raise("ValueError")]
             /\ UNCHANGED <<client, request, ncalls, outcome, store, gone>>
        ELSE Send(c, [res |-> "service-requests", op |-> "list", args |-> a],
                  ServiceRequests_list_request(a))

ServiceRequests_list_call(c, a) ==
    /\ pc[c] = "idle"
    /\ Send(c, [res |-> "service-requests", op |-> "list", args |-> a],
            ServiceRequests_list_request(a))

ServiceRequests_list(c) ==
    /\ pc[c] = "idle"
    /\ \E a \in SRListArgs : ServiceRequests_list_call(c, a)

ServiceRequests_get(c) ==
    /\ pc[c] = "idle"
    /\ \E id \in Ids :
        Send(c, [res |-> "service-requests", op |-> "get", id |-> id],
             ServiceRequests_get_request(id))

ServiceRequests_create_call(c, a) ==
    /\ pc[c] = "idle"
    /\ Send(c, [res |-> "service-requests", op |-> "create", args |-> a],
            ServiceRequests_create_request(a))

ServiceRequests_create(c) ==
    /\ pc[c] = "idle"
    /\ \E a \in SRCreateArgs : ServiceRequests_create_call(c, a)

ServiceRequests_update_call(c, id, kwargs) ==
    /\ pc[c] = "idle"
    /\ Send(c, [res |-> "service-requests", op |-> "update", id |-> id,
                args |-> kwargs],
            ServiceRequests_update_request(id, kwargs))

ServiceRequests_update(c) ==
    /\ pc[c] = "idle"
    /\ \E id \in Ids, kwargs \in SRUpdateArgs : ServiceRequests_update_call(c, id, kwargs)

ServiceRequests_delete(c) ==
    /\ pc[c] = "idle"
    /\ \E id \in Ids :
        Send(c, [res |-> "service-requests", op |-> "delete", id |-> id],
             ServiceRequests_delete_request(id))

Webhooks_list_call(c, a) ==
    /\ pc[c] = "idle"
    /\ Send(c, [res |-> "webhooks", op |-> "list", args |-> a],
            Webhooks_list_request(a))

Webhooks_list(c) ==
    /\ pc[c] = "idle"
    /\ \E a \in WHListArgs : Webhooks_list_call(c, a)

Webhooks_get(c) ==
    /\ pc[c] = "idle"
    /\ \E id \in Ids :
        Send(c, [res |-> "webhooks", op |-> "get", id |-> id],
             Webhooks_get_request(id))

Webhooks_create_call(c, a) ==
    /\ pc[c] = "idle"
    /\ Send(c, [res |-> "webhooks", op |-> "create", args |-> a],
            Webhooks_create_request(a))

Webhooks_create(c) ==
    /\ pc[c] = "idle"
    /\ \E a \in WHCreateArgs : Webhooks_create_call(c, a)

Webhooks_update_call(c, id, a) ==
    /\ pc[c] = "idle"
    /\ Send(c, [res |-> "webhooks", op |-> "update", id |-> id, args |-> a],
            Webhooks_update_request(id, a))

Webhooks_update(c) ==
    /\ pc[c] = "idle"
    /\ \E id \in Ids, a \in WHUpdateArgs : Webhooks_update_call(c, id, a)

Webhooks_delete(c) ==
    /\ pc[c] = "idle"
    /\ \E id \in Ids :
        Send(c, [res |-> "webhooks", op |-> "delete", id |-> id],
             Webhooks_delete_request(id))

Webhooks_list_deliveries_call(c, webhook_id, a) ==
    /\ pc[c] = "idle"
    /\ Send(c, [res |-> "webhooks", op |-> "list_deliveries", id |-> webhook_id,
                args |-> a],
            Webhooks_list_deliveries_request(webhook_id, a))

Webhooks_list_deliveries(c) ==
    /\ pc[c] = "idle"
    /\ \E webhook_id \in Ids, a \in WHDeliveriesArgs :
        Webhooks_list_deliveries_call(c, webhook_id, a)

Webhooks_test(c) ==
    /\ pc[c] = "idle"
    /\ \E id \in Ids :
        Send(c, [res |-> "webhooks", op |-> "test", id |-> id],
             Webhooks_test_request(id))

\* A method that turns any failure into a None result.
MethodResult_fallback(op, o) ==
    IF o.kind = "raise" THEN Return(None)
    ELSE IF op = "delete" THEN Return(None)
    ELSE o

\* A delete that treats not-found as already done.
MethodResult_delete_idempotent(op, o) ==
    IF op = "delete" /\ o \in {Raise("not_found")} THEN Return(None)
    ELSE IF o.kind = "raise" THEN o
    ELSE IF op = "delete" THEN Return(None)
    ELSE o

\* A method that returns the payload instead of the envelope.
MethodResult_unwrap(op, o) ==
    IF o.kind = "raise" THEN o
    ELSE IF op = "delete" THEN Return(None)
    ELSE IF "data" \in DOMAIN o.value THEN Return(o.value.data)
    ELSE o

\* What the method does with the transport's outcome: delete discards the
\* returned value, every other method returns it; an exception propagates.
MethodResult(op, o) ==
    IF o.kind = "raise" THEN o
    ELSE IF op = "delete" THEN Return(None)
    ELSE o

\* A method that calls the transport again when the call failed.
Complete_retry(c, o) ==
    /\ pc[c] = "awaiting"
    /\ IF o.kind = "raise"
       THEN /\ ncalls' = [ncalls EXCEPT ![c] = @ + 1]
            /\ UNCHANGED <<pc, outcome, result>>
       ELSE /\ pc' = [pc EXCEPT ![c] = "done"]
            /\ outcome' = [outcome EXCEPT ![c] = o]
            /\ result' = [result EXCEPT ![c] = MethodResult(call[c].op, o)]
            /\ UNCHANGED ncalls
    /\ UNCHANGED <<client, call, request>>

\* The transport call returns or raises o and the method returns or raises.
Complete(c, o) ==
    /\ pc[c] = "awaiting"
    /\ pc' = [pc EXCEPT ![c] = "done"]
    /\ outcome' = [outcome EXCEPT ![c] = o]
    /\ result' = [result EXCEPT ![c] = MethodResult(call[c].op, o)]
    /\ UNCHANGED <<client, call, request, ncalls>>

\* The transport, seen from the resource layer: any outcome is possible.
TransportCompletes(c) ==
    \E o \in TransportOutcomes : Complete(c, o) /\ UNCHANGED <<store, gone>>

\* The caller takes the result and is ready for its next invocation.
Consume(c) ==
    /\ pc[c] = "done"
    /\ pc' = [pc EXCEPT ![c] = "idle"]
    /\ call' = [call EXCEPT ![c] = NoCall]
    /\ request' = [request EXCEPT ![c] = NoRequest]
    /\ ncalls' = [ncalls EXCEPT ![c] = 0]
    /\ outcome' = [outcome EXCEPT ![c] = NoOutcome]
    /\ result' = [result EXCEPT ![c] = NoOutcome]
    /\ UNCHANGED <<client, store, gone>>

Next ==
    \E c \in Callers :
        \/ ServiceRequests_list(c)
        \/ ServiceRequests_get(c)
        \/ ServiceRequests_create(c)
        \/ ServiceRequests_update(c)
        \/ ServiceRequests_delete(c)
        \/ Webhooks_list(c)
        \/ Webhooks_get(c)
        \/ Webhooks_create(c)
        \/ Webhooks_update(c)
        \/ Webhooks_delete(c)
        \/ Webhooks_list_deliveries(c)
        \/ Webhooks_test(c)
        \/ TransportCompletes(c)
        \/ Consume(c)

Spec == Init /\ [][Next]_vars

----------------------------------------------------------------------------
(* The remote system behind the transport: a store of entities addressed   *)
(* by the URL templates.  Every request reaches it, and it decides the     *)
(* outcome of the transport call.                                          *)

Items == Resources \X Ids

Collection(res) == "/v1/" \o res
ItemUrl(it) == Collection(it[1]) \o "/" \o it[2]

Remote(req, o) ==
    \/ \E it \in Items :
        /\ req.url = ItemUrl(it)
        /\ IF it \notin store
           THEN o = Raise("not_found") /\ UNCHANGED <<store, gone>>
           ELSE \/ /\ req.verb = "DELETE"
                   /\ o = Return(None)
                   /\ store' = store \ {it}
                   /\ gone' = gone \cup {it}
                \/ /\ req.verb = "GET"
                   /\ o = Return(ApiResponse(it[2]))
                   /\ UNCHANGED <<store, gone>>
                \/ /\ req.verb = "PUT"
                   /\ o \in {Return(ApiResponse(it[2])), Raise("validation")}
                   /\ UNCHANGED <<store, gone>>
    \/ \E res \in Resources :
        /\ req.url = Collection(res)
        /\ \/ /\ req.verb = "GET"
              /\ o = Return(ListResponse)
              /\ UNCHANGED <<store, gone>>
           \/ /\ req.verb = "POST"
              /\ o = Raise("validation")
              /\ UNCHANGED <<store, gone>>
           \/ /\ req.verb = "POST"
              /\ \E id \in Ids :
                  /\ <<res, id>> \notin store \cup gone
                  /\ o = Return(ApiResponse(id))
                  /\ store' = store \cup {<<res, id>>}
              /\ UNCHANGED gone
    \/ \E id \in Ids :
        /\ \/ /\ req.verb = "GET"
              /\ req.url = ItemUrl(<<"webhooks", id>>) \o "/deliveries"
              /\ o = IF <<"webhooks", id>> \in store
                     THEN Return(ListResponse) ELSE Raise("not_found")
           \/ /\ req.verb = "POST"
              /\ req.url = ItemUrl(<<"webhooks", id>>) \o "/test"
              /\ o = IF <<"webhooks", id>> \in store
                     THEN Return(TestResponse) ELSE Raise("not_found")
        /\ UNCHANGED <<store, gone>>

\* The transport call completes with the outcome the remote system decides.
RemoteCompletes(c) ==
    \E o \in TransportOutcomes : Complete(c, o) /\ Remote(request[c], o)

\* Invocations that leave every optional argument but these unset.
PlainKeys == {"title", "name", "url", "events", "status"}

Plain(cl) ==
    "args" \in DOMAIN cl =>
        /\ \A k \in DOMAIN cl.args \ PlainKeys : cl.args[k] = None
        /\ (cl.op = "update" /\ cl.res = "service-requests") =>
               (DOMAIN cl.args \subseteq PlainKeys /\ NonNull(cl.args) = DOMAIN cl.args)

NextRemote ==
    \E c \in Callers :
        \/ ServiceRequests_list(c) /\ Plain(call'[c])
        \/ ServiceRequests_get(c)
        \/ ServiceRequests_create(c) /\ Plain(call'[c])
        \/ ServiceRequests_update(c) /\ Plain(call'[c])
        \/ ServiceRequests_delete(c)
        \/ Webhooks_list(c) /\ Plain(call'[c])
        \/ Webhooks_get(c)
        \/ Webhooks_create(c) /\ Plain(call'[c])
        \/ Webhooks_update(c) /\ Plain(call'[c])
        \/ Webhooks_delete(c)
        \/ Webhooks_list_deliveries(c) /\ Plain(call'[c])
        \/ Webhooks_test(c)
        \/ RemoteCompletes(c)
        \/ Consume(c)

SpecRemote == Init /\ [][NextRemote]_vars

----------------------------------------------------------------------------
(* Properties of the requests handed to the transport.                     *)

\* An invocation whose request has been handed to the transport.
Sent(c) == pc[c] \in {"awaiting", "done"}

Body(c) == request[c].kw.json
Query(c) == request[c].kw.params

RequiredFields(res) ==
    IF res = "service-requests" THEN {"title"} ELSE {"name", "url", "events"}

\* C1: every create call posts a body in which each required field (title;
\* name, url, events) is a key carrying the caller's value unchanged, also
\* when that value is the empty string.
C1_RequiredFieldsTransmitted ==
    \A c \in DOMAIN pc :
        (Sent(c) /\ call[c].op = "create") =>
            /\ request[c].verb = "POST"
            /\ DOMAIN request[c].kw = {"json"}
            /\ \A f \in RequiredFields(call[c].res) :
                /\ f \in DOMAIN Body(c)
                /\ Body(c)[f] = call[c].args[f]

\* A service request created with the empty title still carries title.
C1_Witness ==
    \E c \in DOMAIN pc :
        /\ Sent(c) /\ call[c].op = "create"
        /\ call[c].res = "service-requests"
        /\ call[c].args.title = PyStr("")
        /\ Body(c).title = PyStr("")

\* C2: every list call (list, list_deliveries) hands the transport query
\* parameters whose keys are exactly the parameters the caller set, each
\* with its value; a parameter left unset is absent, never present as null.
C2_UnsetParamsAbsent ==
    \A c \in DOMAIN pc :
        (Sent(c) /\ call[c].op \in {"list", "list_deliveries"}) =>
            /\ DOMAIN request[c].kw = {"params"}
            /\ DOMAIN Query(c) = NonNull(call[c].args)
            /\ \A k \in DOMAIN Query(c) : Query(c)[k] = call[c].args[k]

\* C3: every update call puts a body that is exactly the fields the caller
\* passed with a non-null value, each unchanged; explicit nulls are dropped.
C3_UpdateBodyIsNonNullArgs ==
    \A c \in DOMAIN pc :
        (Sent(c) /\ call[c].op = "update") =>
            /\ request[c].verb = "PUT"
            /\ DOMAIN request[c].kw = {"json"}
            /\ DOMAIN Body(c) = NonNull(call[c].args)
            /\ \A k \in DOMAIN Body(c) : Body(c)[k] = call[c].args[k]

\* An update given one field as explicit None and another with a value
\* transmits only the latter.
C3_Witness ==
    \E c \in DOMAIN pc :
        /\ Sent(c) /\ call[c].op = "update"
        /\ call[c].res = "service-requests"
        /\ DOMAIN call[c].args = {"status", "notes"}
        /\ call[c].args.notes = None
        /\ Body(c) = [status |-> PyStr("x")]

\* C4: the body of ServiceRequestsResource.create has exactly the keys
\* title and the optional fields the caller supplied with a non-null value.
C4_CreateBodyKeys ==
    \A c \in DOMAIN pc :
        (Sent(c) /\ call[c].op = "create" /\ call[c].res = "service-requests") =>
            DOMAIN Body(c) =
                {"title"} \cup {k \in SRCreateOptKeys : call[c].args[k] # None}

\* create(title, contact_name, priority) transmits exactly these three keys.
C4_Witness ==
    \E c \in DOMAIN pc :
        /\ Sent(c) /\ call[c].op = "create" /\ call[c].res = "service-requests"
        /\ NonNull(call[c].args) = {"title", "contact_name", "priority"}
        /\ DOMAIN Body(c) = {"title", "contact_name", "priority"}

----------------------------------------------------------------------------
(* Properties of the round trip.                                           *)

\* C5: every method invocation issues exactly one transport call, and what
\* it returns or raises is fixed by that call's outcome alone.
C5_ExactlyOneTransportCall ==
    \A c \in DOMAIN pc :
        /\ pc[c] = "idle" => ncalls[c] = 0
        /\ Sent(c) => ncalls[c] = 1
        /\ pc[c] = "done" =>
            \/ result[c] = outcome[c]
            \/ /\ call[c].op = "delete"
               /\ outcome[c].kind = "return"
               /\ result[c] = Return(None)

\* An invocation has completed on a failed transport call.
C5_Witness ==
    \E c \in DOMAIN pc :
        pc[c] = "done" /\ outcome[c].kind = "raise" /\ ncalls[c] = 1

\* C6: when the transport call fails, the method fails with that same
\* failure: no second transport call, no fallback value, no success.
C6_FailureSurfacedVerbatim ==
    \A c \in DOMAIN pc :
        (pc[c] = "done" /\ outcome[c].kind = "raise") =>
            /\ result[c].kind = "raise"
            /\ result[c].error = outcome[c].error
            /\ ncalls[c] = 1

\* A delete whose transport call failed with not-found has raised it.
C6_Witness ==
    \E c \in DOMAIN pc :
        /\ pc[c] = "done" /\ call[c].op = "delete"
        /\ outcome[c] = Raise("not_found")
        /\ result[c] = Raise("not_found")

ExpectedVerb(op) ==
    CASE op \in {"list", "get", "list_deliveries"} -> "GET"
      [] op \in {"create", "test"} -> "POST"
      [] op = "update" -> "PUT"
      [] op = "delete" -> "DELETE"

ExpectedUrl(cl) ==
    CASE cl.op \in {"list", "create"} -> Collection(cl.res)
      [] cl.op \in {"get", "update", "delete"} -> Collection(cl.res) \o "/" \o cl.id
      [] cl.op = "list_deliveries" -> "/v1/webhooks/" \o cl.id \o "/deliveries"
      [] cl.op = "test" -> "/v1/webhooks/" \o cl.id \o "/test"

\* C7: each operation uses its fixed verb and URL template with the
\* caller's id substituted unchanged, and never addresses the collection
\* or an item of the other resource.
C7_VerbAndUrlTemplate ==
    \A c \in DOMAIN pc :
        Sent(c) =>
            /\ request[c].verb = ExpectedVerb(call[c].op)
            /\ request[c].url = ExpectedUrl(call[c])
            /\ \A other \in Resources \ {call[c].res} :
                /\ request[c].url # Collection(other)
                /\ \A id \in Ids : request[c].url # Collection(other) \o "/" \o id

\* A test delivery was requested for webhook e2.
C7_Witness ==
    \E c \in DOMAIN pc :
        /\ Sent(c) /\ call[c].op = "test" /\ call[c].id = "e2"
        /\ request[c].verb = "POST"
        /\ request[c].url = "/v1/webhooks/e2/test"

\* C8: list, get, create, update, list_deliveries and test return exactly
\* the value the transport returned: same fields, none added or dropped.
C8_ResponseReturnedUnchanged ==
    \A c \in DOMAIN pc :
        (pc[c] = "done" /\ call[c].op # "delete" /\ outcome[c].kind = "return") =>
            /\ result[c].kind = "return"
            /\ result[c].value = outcome[c].value

\* get returned the single-item envelope the transport decoded.
C8_Witness ==
    \E c \in DOMAIN pc :
        /\ pc[c] = "done" /\ call[c].op = "get"
        /\ outcome[c] = Return(ApiResponse("e1"))
        /\ result[c].value.data = Entity
        /\ DOMAIN result[c].value = {"data", "meta"}

\* C10: no update request body carries an id or business_id key.
C10_UpdateNeverCarriesIdentity ==
    \A c \in DOMAIN pc :
        (Sent(c) /\ call[c].op = "update") =>
            DOMAIN Body(c) \cap {"id", "business_id"} = {}

----------------------------------------------------------------------------
(* Properties of sequences of calls against the remote store.              *)

\* C9: a delete of an id that was already deleted or never existed raises
\* the remote not-found failure, never a success; a delete of an existing
\* id returns nothing (and the entity is gone).
C9_DeleteOfMissingIdFails ==
    [][\A c \in DOMAIN pc :
        (pc[c] = "awaiting" /\ pc'[c] = "done" /\ call[c].op = "delete") =>
            IF <<call[c].res, call[c].id>> \in store
            THEN result'[c] = Return(None)
            ELSE result'[c] = Raise("not_found")]_vars

\* A second delete of an id deleted before has raised not-found.
C9_Witness ==
    \E c \in DOMAIN pc :
        /\ pc[c] = "done" /\ call[c].op = "delete"
        /\ <<call[c].res, call[c].id>> \in gone
        /\ outcome[c] = Raise("not_found")
        /\ result[c] = Raise("not_found")

----------------------------------------------------------------------------
(* Properties of argument handling.                                        *)

\* C11: no method validates argument values locally: whatever page,
\* per_page (also page < 1, per_page > 100) and event names (also names
\* outside the catalogue) are given, the call reaches the transport with
\* the value unchanged, and a failure is only ever the transport's.
C11_NoLocalValidation ==
    \A c \in DOMAIN pc :
        /\ pc[c] # "idle" => (request[c] # NoRequest /\ ncalls[c] = 1)
        /\ (Sent(c) /\ call[c].op \in {"list", "list_deliveries"}) =>
            \A k \in {"page", "per_page"} :
                call[c].args[k] # None =>
                    (k \in DOMAIN Query(c) /\ Query(c)[k] = call[c].args[k])
        /\ (Sent(c) /\ call[c].res = "webhooks" /\ call[c].op \in {"create", "update"}) =>
            (call[c].args.events # None =>
                ("events" \in DOMAIN Body(c) /\ Body(c).events = call[c].args.events))
        /\ (pc[c] = "done" /\ result[c].kind = "raise") => result[c] = outcome[c]

\* list(page=0, per_page=101) has reached the transport with both values.
C11_Witness ==
    \E c \in DOMAIN pc :
        /\ Sent(c) /\ call[c].op = "list" /\ call[c].res = "service-requests"
        /\ call[c].args.page = PyInt(0) /\ call[c].args.per_page = PyInt(101)
        /\ Query(c).page = PyInt(0) /\ Query(c).per_page = PyInt(101)

\* Values that are false in a boolean context without being None.
Falsy == {PyStr(""), PyInt(0), PyBool(FALSE), PyList(<<>>)}

\* C13: only None counts as unset: on create and update a field given a
\* falsy value other than None (False, "", 0, an empty list) is kept in
\* the body with that value; WebhooksResource.update(id, is_active=False)
\* transmits exactly {is_active: false}.
C13_FalsyValuesKept ==
    \A c \in DOMAIN pc :
        (Sent(c) /\ call[c].op \in {"create", "update"}) =>
            /\ \A k \in DOMAIN call[c].args :
                call[c].args[k] \in Falsy =>
                    (k \in DOMAIN Body(c) /\ Body(c)[k] = call[c].args[k])
            /\ (/\ call[c].res = "webhooks" /\ call[c].op = "update"
                /\ NonNull(call[c].args) = {"is_active"}
                /\ call[c].args.is_active = PyBool(FALSE)) =>
                    Body(c) = [is_active |-> PyBool(FALSE)]

\* WebhooksResource.update(id, is_active=False) has been sent.
C13_Witness ==
    \E c \in DOMAIN pc :
        /\ Sent(c) /\ call[c].res = "webhooks" /\ call[c].op = "update"
        /\ NonNull(call[c].args) = {"is_active"}
        /\ call[c].args.is_active = PyBool(FALSE)
        /\ Body(c) = [is_active |-> PyBool(FALSE)]

----------------------------------------------------------------------------
(* Several callers sharing the resource clients.  A caller's invocation is *)
(* in flight while the others start and complete theirs.                   *)

NumCallers == 2

ConcCallers == 1..NumCallers

InitConc ==
    /\ client = [r \in Resources |-> TheClient]
    /\ pc = [c \in ConcCallers |-> "idle"]
    /\ call = [c \in ConcCallers |-> NoCall]
    /\ request = [c \in ConcCallers |-> NoRequest]
    /\ ncalls = [c \in ConcCallers |-> 0]
    /\ outcome = [c \in ConcCallers |-> NoOutcome]
    /\ result = [c \in ConcCallers |-> NoOutcome]
    /\ store = {}
    /\ gone = {}

\* The invocations and outcomes drawn when callers interleave.
ConcId == "e1"

Unset(a, keys) == \A k \in DOMAIN a \ keys : a[k] = None

ConcSRListArgs == {a \in SRListArgs : Unset(a, {"status"}) /\ a.status # PyStr("")}
ConcSRCreateArgs == {a \in SRCreateArgs : Unset(a, {"title"}) /\ Truthy(a.title)}
ConcSRUpdateArgs ==
    {a \in SRUpdateArgs :
        DOMAIN a \in {{"status"}, {"title"}} /\ \A k \in DOMAIN a : Truthy(a[k])}
ConcWHListArgs == {a \in WHListArgs : Unset(a, {})}
ConcWHCreateArgs ==
    {a \in WHCreateArgs :
        a.events = PyList(<<"invoice.paid">>) /\ \A k \in DOMAIN a : Truthy(a[k])}
ConcWHUpdateArgs == {a \in WHUpdateArgs : Unset(a, {"is_active"}) /\ a.is_active # None}
ConcWHDeliveriesArgs == {a \in WHDeliveriesArgs : Unset(a, {})}

ConcOutcomes == {Return(ListResponse), Raise("transport")}

NextConc ==
    \E c \in ConcCallers :
        \/ \E a \in ConcSRListArgs : ServiceRequests_list_call(c, a)
        \/ ServiceRequests_get(c) /\ call'[c].id = ConcId
        \/ \E a \in ConcSRCreateArgs : ServiceRequests_create_call(c, a)
        \/ \E a \in ConcSRUpdateArgs : ServiceRequests_update_call(c, ConcId, a)
        \/ ServiceRequests_delete(c) /\ call'[c].id = ConcId
        \/ \E a \in ConcWHListArgs : Webhooks_list_call(c, a)
        \/ Webhooks_get(c) /\ call'[c].id = ConcId
        \/ \E a \in ConcWHCreateArgs : Webhooks_create_call(c, a)
        \/ \E a \in ConcWHUpdateArgs : Webhooks_update_call(c, ConcId, a)
        \/ Webhooks_delete(c) /\ call'[c].id = ConcId
        \/ \E a \in ConcWHDeliveriesArgs : Webhooks_list_deliveries_call(c, ConcId, a)
        \/ Webhooks_test(c) /\ call'[c].id = ConcId
        \/ \E o \in ConcOutcomes : Complete(c, o) /\ UNCHANGED <<store, gone>>
        \/ Consume(c)

SpecConc == InitConc /\ [][NextConc]_vars

\* The request a call hands to the transport when no other call is around.
RequestAlone(cl) ==
    IF cl.res = "service-requests"
    THEN CASE cl.op = "list" -> ServiceRequests_list_request(cl.args)
           [] cl.op = "get" -> ServiceRequests_get_request(cl.id)
           [] cl.op = "create" -> ServiceRequests_create_request(cl.args)
           [] cl.op = "update" -> ServiceRequests_update_request(cl.id, cl.args)
           [] cl.op = "delete" -> ServiceRequests_delete_request(cl.id)
    ELSE CASE cl.op = "list" -> Webhooks_list_request(cl.args)
           [] cl.op = "get" -> Webhooks_get_request(cl.id)
           [] cl.op = "create" -> Webhooks_create_request(cl.args)
           [] cl.op = "update" -> Webhooks_update_request(cl.id, cl.args)
           [] cl.op = "delete" -> Webhooks_delete_request(cl.id)
           [] cl.op = "list_deliveries" ->
                Webhooks_list_deliveries_request(cl.id, cl.args)
           [] cl.op = "test" -> Webhooks_test_request(cl.id)

\* C12: concurrent calls on the same resource client are independent: in
\* every interleaving the request of each call in flight is the request it
\* hands over when run alone, and no call changes the resource client's
\* only field, the transport reference.
C12_ConcurrentCallsIndependent ==
    /\ client = [r \in Resources |-> TheClient]
    /\ \A c \in DOMAIN pc : Sent(c) => request[c] = RequestAlone(call[c])

\* Two callers are in flight on the same resource with different requests,
\* the second having started after the first.
C12_Witness ==
    \E c, d \in DOMAIN pc :
        /\ c # d
        /\ pc[c] = "awaiting" /\ pc[d] = "awaiting"
        /\ call[c].res = call[d].res /\ call[c].op = "update" /\ call[d].op = "create"
        /\ request[c] # request[d]

====
